---- MODULE Spec2Model ----
(***************************************************************************)
(* Wallet gas monitor (index.js): the check cycle runCheck, the cooldown   *)
(* record state.json, the status record latest-status.json, the Telegram   *)
(* channel and the start-up / cron scheduling of cycles.                   *)
(*                                                                         *)
(* JavaScript runs one callback at a time: a cycle can be interleaved with *)
(* another one only at an `await`.  Every action below is the code that    *)
(* runs between two awaits of runCheck.                                    *)
(***************************************************************************)
EXTENDS Integers, Sequences, FiniteSets, TLC

VARIABLES
    cycles,     \* one record per invocation of runCheck; cycle 1 is the start-up run
    disk,       \* content of state.json
    status,     \* content of latest-status.json
    telegram,   \* requests that reached a verdict at the Telegram API, in order
    clock,      \* last value Date.now() returned
    evaluated,  \* history: inputs and results of the latest evaluation loop
    scheduled,  \* cron.schedule has been called
    crashed     \* the process was ended by an unhandled rejection

vars == <<cycles, disk, status, telegram, clock, evaluated, scheduled, crashed>>

-----------------------------------------------------------------------------
(* Bounds of the model *)

MaxCycles == 3      \* invocations of runCheck in one run of the process
MaxTicks == 4       \* Date.now() takes MaxTicks + 1 values, TimeStep apart

-----------------------------------------------------------------------------
(* config.json, read once at start-up *)

threshold_usd == 2
alert_cooldown_hours == 1
config_chains == <<"eth">>                 \* Object.keys(config.chains)
coingecko_id(chainKey) == chainKey         \* every chain has its own price id
solana_coingecko_id == "solana"

Null == -1                                 \* JavaScript null in a numeric field

cooldownMs == alert_cooldown_hours * 60 * 60 * 1000

EvmKey(chainKey) == "evm_" \o chainKey
SolanaKey == "solana"
Keys == {EvmKey(config_chains[i]) : i \in 1..Len(config_chains)} \cup {SolanaKey}
PriceIds == {coingecko_id(config_chains[i]) : i \in 1..Len(config_chains)}
                \cup {solana_coingecko_id}

-----------------------------------------------------------------------------
(* Values the outside world can hand to the program *)

TimeStep == cooldownMs \div 2
\* The earliest clock value is one cooldown after the epoch: the first value
\* stands for every clock not later than cooldownMs (a cooldown longer than
\* the time since the epoch), the later ones for the clocks past it.
StartTime == cooldownMs
Times == {StartTime + k * TimeStep : k \in 0..MaxTicks}
Balances == {1, 2}                         \* a balance read in whole units
UsdPrices == {1}                           \* a `usd` number of the price response
NoEntry == Null                            \* the response lacks the identifier
PriceResponses == [PriceIds -> UsdPrices \cup {NoEntry}]
ReadOutcomes == Balances \cup {Null}       \* Null: the RPC call threw
SendOutcomes == {"ok", "refused", "error"} \* delivered / answered with an API
                                           \* error / request error
WriteOutcomes == {"ok", "unchanged", "truncated"}  \* fs.writeFileSync

NoFile == [kind |-> "nofile"]
Corrupt == [kind |-> "corrupt"]
EmptyMap == <<>>
\* state.json holds JSON without a lastAlerts object, such as {}: nothing the
\* monitor writes, but loadState returns it as it is
Undefined == [undefined |-> TRUE]
IllShaped == [kind |-> "json", lastAlerts |-> Undefined]

-----------------------------------------------------------------------------
(* state.json *)

loadState(file) == IF file.kind = "json" THEN file.lastAlerts ELSE EmptyMap

\* what fs.writeFileSync leaves behind: the new content, the old content
\* (the file could not be opened) or a truncated file (the write broke off)
WriteFile(old, content, outcome) ==
    CASE outcome = "ok" -> content
      [] outcome = "unchanged" -> old
      [] OTHER -> Corrupt

saveState(file, lastAlerts, outcome) ==
    WriteFile(file, [kind |-> "json", lastAlerts |-> lastAlerts], outcome)

-----------------------------------------------------------------------------
(* Balance readings *)

\* prices[id]?.usd || 0
\* as if the `|| 0` default were missing
PriceOfRaw(prices, id) == prices[id]

PriceOf(prices, id) == IF prices[id] = NoEntry THEN 0 ELSE prices[id]

\* as if the catch block reported a value of 0 for the failed read
FailedReadingZeroValue(key) ==
    [key |-> key, balance |-> Null, price |-> 0, valueUSD |-> 0, error |-> TRUE]

FailedReading(key) ==
    [key |-> key, balance |-> Null, price |-> 0, valueUSD |-> Null, error |-> TRUE]

\* as if the value were the balance, not yet multiplied by the price
GoodReadingUnpriced(key, balance, price) ==
    [key |-> key, balance |-> balance, price |-> price,
     valueUSD |-> balance, error |-> FALSE]

GoodReading(key, balance, price) ==
    [key |-> key, balance |-> balance, price |-> price,
     valueUSD |-> balance * price, error |-> FALSE]

\* one turn of the loop of checkEVMBalances
EvmReading(chainKey, outcome, prices) ==
    IF outcome = Null
    THEN FailedReading(EvmKey(chainKey))
    ELSE GoodReading(EvmKey(chainKey), outcome, PriceOf(prices, coingecko_id(chainKey)))

SolanaReading(outcome, prices) ==
    IF outcome = Null
    THEN FailedReading(SolanaKey)
    ELSE GoodReading(SolanaKey, outcome, PriceOf(prices, solana_coingecko_id))

-----------------------------------------------------------------------------
(* Evaluation loop of runCheck *)

\* as if the loop compared without the null test: JavaScript reads null as 0
BelowThresholdCoercing(r) == r.valueUSD < threshold_usd

BelowThreshold(r) == r.valueUSD # Null /\ r.valueUSD < threshold_usd

\* state.lastAlerts[r.key] || 0
LastAlert(lastAlerts, key) ==
    IF key \in DOMAIN lastAlerts THEN lastAlerts[key] ELSE 0

CooldownOver(lastAlerts, key, now) == now - LastAlert(lastAlerts, key) > cooldownMs

\* as if the loop replaced the map instead of setting one entry
PutForgetting(lastAlerts, key, now) == [k \in {key} |-> now]

Put(lastAlerts, key, now) ==
    [k \in DOMAIN lastAlerts \cup {key} |-> IF k = key THEN now ELSE lastAlerts[k]]

RECURSIVE EvalLoop(_, _, _, _)
EvalLoop(results, lastAlerts, lowBalances, now) ==
    IF results = <<>>
    THEN [state |-> lastAlerts, lowBalances |-> lowBalances, thrown |-> FALSE]
    ELSE LET r == Head(results) IN
         IF BelowThreshold(r) /\ DOMAIN lastAlerts = DOMAIN Undefined
         THEN \* state.lastAlerts[r.key] on undefined: TypeError
              [state |-> lastAlerts, lowBalances |-> lowBalances, thrown |-> TRUE]
         ELSE
         IF BelowThreshold(r) /\ CooldownOver(lastAlerts, r.key, now)
         THEN EvalLoop(Tail(results), Put(lastAlerts, r.key, now),
                       Append(lowBalances, r), now)
         ELSE EvalLoop(Tail(results), lastAlerts, lowBalances, now)

\* as if the flag were computed without the null test
StatusEntryCoercing(r) ==
    [chain |-> r.key, balance |-> r.balance, valueUSD |-> r.valueUSD,
     belowThreshold |-> r.valueUSD < threshold_usd]

\* statusData of runCheck
StatusEntry(r) ==
    [chain |-> r.key, balance |-> r.balance, valueUSD |-> r.valueUSD,
     belowThreshold |-> BelowThreshold(r)]

StatusData(prices, results) ==
    [kind |-> "json", prices |-> prices,
     balances |-> [i \in 1..Len(results) |-> StatusEntry(results[i])]]

\* as if the message listed the low balances last to first
AlertKeysReversed(lowBalances) ==
    [i \in 1..Len(lowBalances) |-> lowBalances[Len(lowBalances) + 1 - i].key]

AlertKeys(lowBalances) == [i \in 1..Len(lowBalances) |-> lowBalances[i].key]

-----------------------------------------------------------------------------------------------------------------------------------------------------
(* runCheck *)

\* runCheck up to its first await: getPrices has been called
NewCycle ==
    [pc |-> "prices", outcome |-> "pending", thrown |-> "none",
     overlap |-> FALSE, priceFetch |-> "pending", prices |-> <<>>, results |-> <<>>,
     loaded |-> EmptyMap, state |-> EmptyMap, now |-> Null, lowBalances |-> <<>>,
     reads |-> 0, sendCalls |-> 0, saveCalls |-> 0, statusCalls |-> 0]

\* a settled invocation: its locals are gone, what it did is kept as history
Settled(rec, outcome, thrown) ==
    [NewCycle EXCEPT !.pc = "done", !.outcome = outcome, !.thrown = thrown,
                     !.overlap = rec.overlap, !.priceFetch = rec.priceFetch,
                     !.reads = rec.reads, !.sendCalls = rec.sendCalls,
                     !.saveCalls = rec.saveCalls, !.statusCalls = rec.statusCalls]

Running(c) == c \in 1..Len(cycles) /\ cycles[c].pc # "done" /\ ~crashed

\* The promise of runCheck settles.  The start-up run installs the cron job in
\* its `then` callback, which a rejection skips; with nothing scheduled the
\* process then ends.  The rejection of a scheduled run goes to the scheduler
\* and the runtime, which either absorb it or end the process (crash).
Settle(c, rec, thrown, crash) ==
    LET outcome == IF thrown = "none" THEN "fulfilled" ELSE "rejected" IN
    /\ cycles' = [cycles EXCEPT ![c] = Settled(rec, outcome, thrown)]
    /\ scheduled' = (scheduled \/ (c = 1 /\ outcome = "fulfilled"))
    /\ crashed' = (outcome = "rejected" /\ (c = 1 \/ crash))

\* saveState(state), then the status write, each of which may throw
Persist(c, rec, save, write, crash) ==
    LET saved == [rec EXCEPT !.saveCalls = @ + 1]
        written == [saved EXCEPT !.statusCalls = @ + 1]
    IN  /\ disk' = saveState(disk, rec.state, save)
        /\ IF save # "ok"
           THEN /\ status' = status
                /\ Settle(c, saved, "save", crash)
           ELSE /\ status' = WriteFile(status, StatusData(rec.prices, rec.results), write)
                /\ Settle(c, written, IF write = "ok" THEN "none" ELSE "status", crash)

\* as if the Solana read were started at once, the EVM reads left behind
PricesOkSkipsEvm(c, responses) ==
    /\ Running(c) /\ cycles[c].pc = "prices"
    /\ \E p \in responses :
         cycles' = [cycles EXCEPT ![c] = [@ EXCEPT !.pc = "sol", !.priceFetch = "ok",
                                                   !.prices = p, !.reads = @ + 1]]
    /\ UNCHANGED <<disk, status, telegram, clock, evaluated, scheduled, crashed>>

\* getPrices resolves: checkEVMBalances starts its first balance read
PricesOk(c, responses) ==
    /\ Running(c) /\ cycles[c].pc = "prices"
    /\ \E p \in responses :
         cycles' = [cycles EXCEPT ![c] = [@ EXCEPT !.pc = "evm", !.priceFetch = "ok",
                                                   !.prices = p, !.reads = @ + 1]]
    /\ UNCHANGED <<disk, status, telegram, clock, evaluated, scheduled, crashed>>

\* as if the catch block of runCheck lacked its `return`: the cycle goes on
\* with no price at all
PricesFailFallsThrough(c) ==
    /\ Running(c) /\ cycles[c].pc = "prices"
    /\ cycles' = [cycles EXCEPT ![c] =
            [@ EXCEPT !.pc = "evm", !.priceFetch = "failed",
                      !.prices = [id \in PriceIds |-> NoEntry], !.reads = @ + 1]]
    /\ UNCHANGED <<disk, status, telegram, clock, evaluated, scheduled, crashed>>

\* getPrices rejects: runCheck logs and returns
PricesFail(c) ==
    /\ Running(c) /\ cycles[c].pc = "prices"
    /\ Settle(c, [cycles[c] EXCEPT !.priceFetch = "failed"], "none", FALSE)
    /\ UNCHANGED <<disk, status, telegram, clock, evaluated>>

\* provider.getBalance settles for the next chain of config.chains; the next
\* balance read starts
EvmRead(c, outcomes) ==
    /\ Running(c) /\ cycles[c].pc = "evm"
    /\ \E outcome \in outcomes :
         LET rec == cycles[c]
             chainKey == config_chains[Len(rec.results) + 1]
             results == Append(rec.results, EvmReading(chainKey, outcome, rec.prices))
         IN  cycles' = [cycles EXCEPT ![c] =
                 [rec EXCEPT !.results = results,
                             !.reads = @ + 1,
                             !.pc = IF Len(results) = Len(config_chains)
                                    THEN "sol" ELSE "evm"]]
    /\ UNCHANGED <<disk, status, telegram, clock, evaluated, scheduled, crashed>>

\* what the evaluation loop of cycle c read and produced
Evaluation(c, rec) ==
    [cycle |-> c, prices |-> rec.prices, results |-> rec.results,
     loaded |-> rec.loaded, now |-> rec.now, state |-> rec.state,
     lowBalances |-> rec.lowBalances]

NoEvaluation == Evaluation(0, NewCycle)

\* connection.getBalance settles; runCheck then runs without a break from
\* loadState to the call of sendTelegramAlert or, with nothing to alert, to
\* its end
SolRead(c, outcomes) ==
    /\ Running(c) /\ cycles[c].pc = "sol"
    /\ \E outcome \in outcomes, now \in {t \in Times : t >= clock},
          save \in WriteOutcomes, write \in WriteOutcomes, crash \in BOOLEAN :
         LET rec == cycles[c]
             allResults == Append(rec.results, SolanaReading(outcome, rec.prices))
             loaded == loadState(disk)
             eval == EvalLoop(allResults, loaded, <<>>, now)
             after == [rec EXCEPT !.results = allResults, !.loaded = loaded,
                                  !.now = now, !.state = eval.state,
                                  !.lowBalances = eval.lowBalances]
         IN  /\ clock' = now
             /\ evaluated' = Evaluation(c, after)
             /\ IF eval.thrown
                THEN /\ Settle(c, after, "eval", crash)
                     /\ UNCHANGED <<disk, status>>
                ELSE
                IF Len(eval.lowBalances) > 0
                THEN /\ cycles' = [cycles EXCEPT ![c] =
                            [after EXCEPT !.pc = "send", !.sendCalls = @ + 1]]
                     /\ UNCHANGED <<disk, status, scheduled, crashed>>
                ELSE Persist(c, after, save, write, crash)
    /\ UNCHANGED telegram

\* the Telegram request ends: with a response (delivered or refused by the
\* API, resolve either way) or with a request error (reject)
SendDone(c) ==
    /\ Running(c) /\ cycles[c].pc = "send"
    /\ \E sent \in SendOutcomes, save \in WriteOutcomes, write \in WriteOutcomes,
          crash \in BOOLEAN :
         LET rec == cycles[c] IN
         /\ telegram' = Append(telegram,
                [cycle |-> c, at |-> rec.now, keys |-> AlertKeys(rec.lowBalances),
                 outcome |-> sent])
         /\ IF sent = "error"
            THEN /\ Settle(c, rec, "send", crash)
                 /\ UNCHANGED <<disk, status>>
            ELSE Persist(c, rec, save, write, crash)
    /\ UNCHANGED <<clock, evaluated>>

\* cron.schedule(cronExpr, () => runCheck())
CronTick ==
    /\ scheduled /\ ~crashed
    /\ Len(cycles) < MaxCycles
    /\ cycles' = Append(cycles,
            [NewCycle EXCEPT !.overlap = \E c \in 1..Len(cycles) : cycles[c].pc # "done"])
    /\ UNCHANGED <<disk, status, telegram, clock, evaluated, scheduled, crashed>>

-----------------------------------------------------------------------------------------------------------------------------------------------------
(* The process from a fresh start: the start-up run, then the cron job.     *)
(* Cycles overlap whenever a tick comes before the earlier run has settled. *)
(* The wallets of this specification are funded below or at the threshold   *)
(* and every identifier is priced.                                          *)

AllPriced == [id \in PriceIds |-> 1]
SchedPrices == {AllPriced}
SchedReads == Balances

\* the module body has run: the first runCheck waits for the prices
Init ==
    /\ cycles = <<NewCycle>>
    /\ disk \in {NoFile, Corrupt}
    /\ status = NoFile
    /\ telegram = <<>>
    /\ clock = StartTime
    /\ evaluated = NoEvaluation
    /\ scheduled = FALSE
    /\ crashed = FALSE

Next ==
    \/ \E c \in 1..MaxCycles : PricesOk(c, SchedPrices)
    \/ \E c \in 1..MaxCycles : PricesFail(c)
    \/ \E c \in 1..MaxCycles : EvmRead(c, SchedReads)
    \/ \E c \in 1..MaxCycles : SolRead(c, SchedReads)
    \/ \E c \in 1..MaxCycles : SendDone(c)
    \/ CronTick

Spec == Init /\ [][Next]_vars

\* every pending callback is eventually run and the cron job keeps ticking
LiveSpec == Spec /\ WF_vars(Next)

-----------------------------------------------------------------------------
(* One run of runCheck, the start-up run of a process that starts on what   *)
(* earlier runs of the monitor left in state.json, with every price         *)
(* response and every outcome of the balance reads.                         *)

\* what the monitor can have saved: every timestamp is the `now` of a cycle
\* that alerted, hence later than one cooldown and not later than the clock
PersistedMaps(time) ==
    UNION {[keys -> {t \in Times : t > cooldownMs /\ t <= time}] : keys \in SUBSET Keys}

CycleInit ==
    /\ cycles = <<NewCycle>>
    /\ clock \in Times
    /\ disk \in {NoFile, Corrupt}
            \cup {[kind |-> "json", lastAlerts |-> m] : m \in PersistedMaps(clock)}
    /\ status = NoFile
    /\ telegram = <<>>
    /\ evaluated = NoEvaluation
    /\ scheduled = FALSE
    /\ crashed = FALSE

CycleNext ==
    \/ PricesOk(1, PriceResponses)
    \/ PricesFail(1)
    \/ EvmRead(1, ReadOutcomes)
    \/ SolRead(1, ReadOutcomes)
    \/ SendDone(1)

CycleSpec == CycleInit /\ [][CycleNext]_vars

-----------------------------------------------------------------------------
(* One run of runCheck on a state.json of any content: absent, unparseable, *)
(* JSON without a lastAlerts object, or a saved cooldown state.             *)

LoadInit ==
    /\ cycles = <<NewCycle>>
    /\ clock \in Times
    /\ disk \in {NoFile, Corrupt, IllShaped}
            \cup {[kind |-> "json", lastAlerts |-> m] : m \in PersistedMaps(clock)}
    /\ status = NoFile
    /\ telegram = <<>>
    /\ evaluated = NoEvaluation
    /\ scheduled = FALSE
    /\ crashed = FALSE

LoadSpec == LoadInit /\ [][CycleNext]_vars

-----------------------------------------------------------------------------
(* Properties *)

IsSettled(c) == c \in 1..Len(cycles) /\ cycles[c].pc = "done"
HasEvaluated == evaluated.cycle # 0
Readings == {evaluated.results[i] : i \in 1..Len(evaluated.results)}
AlertList == {evaluated.lowBalances[i] : i \in 1..Len(evaluated.lowBalances)}
AlertedKeys == {r.key : r \in AlertList}
Entry(lastAlerts, key) == IF key \in DOMAIN lastAlerts THEN <<lastAlerts[key]>> ELSE <<>>

\* C1: a reading is put in the alert list iff its valueUSD is non-null and
\* below threshold_usd and its key is absent from the loaded cooldown state
\* or was last alerted more than the cooldown before `now`.
C1_EligibleIff ==
    HasEvaluated =>
      \A r \in Readings :
        r \in AlertList <=>
          /\ r.valueUSD # Null
          /\ r.valueUSD < threshold_usd
          /\ \/ r.key \notin DOMAIN evaluated.loaded
             \/ evaluated.now - evaluated.loaded[r.key] > alert_cooldown_hours * 3600000

\* C5: after the evaluation loop the cooldown state differs from the loaded
\* one exactly on the keys of the alert list, which map to the cycle's `now`;
\* every other key keeps its timestamp and no key is removed.
C5_FrameOfEvaluation ==
    HasEvaluated =>
      /\ DOMAIN evaluated.state = DOMAIN evaluated.loaded \cup AlertedKeys
      /\ \A k \in AlertedKeys :
            /\ evaluated.state[k] = evaluated.now
            /\ Entry(evaluated.loaded, k) # <<evaluated.now>>
      /\ \A k \in DOMAIN evaluated.loaded \ AlertedKeys :
            evaluated.state[k] = evaluated.loaded[k]

\* an alerted key that had an entry, beside a low key kept under cooldown
C5_Witness ==
    /\ HasEvaluated
    /\ \E r \in AlertList : r.key \in DOMAIN evaluated.loaded
    /\ \E r \in Readings \ AlertList :
          /\ BelowThreshold(r)
          /\ r.key \in DOMAIN evaluated.state
          /\ evaluated.state[r.key] < evaluated.now

\* C6: the reading of a failed balance read is never in the alert list and
\* never changes the cooldown entry of its key, in memory or in state.json.
C6_FailedReadInert ==
    HasEvaluated =>
      \A r \in Readings :
        r.balance = Null =>
          /\ r.valueUSD = Null
          /\ r.key \notin AlertedKeys
          /\ Entry(evaluated.state, r.key) = Entry(evaluated.loaded, r.key)
          /\ disk.kind = "json" =>
                Entry(disk.lastAlerts, r.key) = Entry(evaluated.loaded, r.key)

\* a failed read of a key whose cooldown is over, in a cycle that alerts and
\* saves for another key
C6_Witness ==
    /\ HasEvaluated
    /\ AlertList # {}
    /\ IsSettled(1) /\ cycles[1].thrown = "none"
    /\ \E r \in Readings :
          /\ r.balance = Null
          /\ r.key \in DOMAIN evaluated.loaded
          /\ CooldownOver(evaluated.loaded, r.key, evaluated.now)

\* C7: when the price fetch fails the cycle ends without a balance read, an
\* alert, a cooldown save or a status write, and the step leaves state.json,
\* latest-status.json and the channel as they were.
C7_PriceFailureAborts ==
    /\ [](\A c \in 1..Len(cycles) :
            cycles[c].priceFetch = "failed" =>
              /\ cycles[c].pc = "done" /\ cycles[c].outcome = "fulfilled"
              /\ cycles[c].reads = 0 /\ cycles[c].sendCalls = 0
              /\ cycles[c].saveCalls = 0 /\ cycles[c].statusCalls = 0)
    /\ [][\A c \in 1..Len(cycles) :
            (cycles[c].priceFetch = "pending" /\ cycles'[c].priceFetch = "failed") =>
              (disk' = disk /\ status' = status /\ telegram' = telegram)]_vars

\* a failed price fetch over a saved cooldown state
C7_Witness ==
    /\ cycles[1].priceFetch = "failed"
    /\ disk.kind = "json" /\ DOMAIN disk.lastAlerts # {}
    /\ ~HasEvaluated

NumReadings == Len(config_chains) + 1
ReadingKey(i) == IF i <= Len(config_chains) THEN EvmKey(config_chains[i]) ELSE SolanaKey
WellFormed(results) ==
    \A i \in 1..Len(results) :
        /\ results[i].key = ReadingKey(i)
        /\ results[i].balance = Null =>
              /\ results[i].valueUSD = Null /\ results[i].price = 0
              /\ results[i].error

\* C8: whichever balance reads fail, the cycle has one reading per configured
\* chain (a failed one with null balance and value, price 0 and an error),
\* evaluates the other chains, and, with delivery and writes working, saves
\* the cooldown state and publishes the status; no read failure rejects runCheck.
C8_ReadFailuresIsolated ==
    /\ \A c \in 1..Len(cycles) :
          /\ WellFormed(cycles[c].results)
          /\ cycles[c].pc \in {"sol", "send"} =>
                Len(cycles[c].results) = cycles[c].reads - (IF cycles[c].pc = "sol" THEN 1 ELSE 0)
          /\ cycles[c].pc \in {"send", "done"} /\ cycles[c].priceFetch = "ok" =>
                cycles[c].reads = NumReadings
          /\ cycles[c].outcome = "rejected" =>
                /\ cycles[c].reads = NumReadings
                /\ cycles[c].sendCalls = 1 \/ cycles[c].saveCalls = 1
    /\ HasEvaluated =>
          /\ Len(evaluated.results) = NumReadings
          /\ WellFormed(evaluated.results)
          /\ \A r \in Readings :
                (BelowThreshold(r) /\ CooldownOver(evaluated.loaded, r.key, evaluated.now))
                    => r \in AlertList
          /\ (IsSettled(1) /\ cycles[1].thrown = "none") =>
                /\ cycles[1].saveCalls = 1 /\ cycles[1].statusCalls = 1
                /\ disk = [kind |-> "json", lastAlerts |-> evaluated.state]
                /\ status = StatusData(evaluated.prices, evaluated.results)

\* a cycle with a failed EVM read that alerts for Solana, saves and publishes
C8_Witness ==
    /\ HasEvaluated
    /\ IsSettled(1) /\ cycles[1].outcome = "fulfilled"
    /\ evaluated.results[1].balance = Null
    /\ AlertedKeys = {SolanaKey}
    /\ disk.kind = "json" /\ SolanaKey \in DOMAIN disk.lastAlerts
    /\ disk.lastAlerts[SolanaKey] = evaluated.now
    /\ status.kind = "json" /\ status.balances[1].balance = Null

DeliveryFailed(c) == \E i \in 1..Len(telegram) :
                        telegram[i].cycle = c /\ telegram[i].outcome = "error"

\* C9: when the delivery of the alert fails, the cycle still saves the
\* cooldown state it computed and writes the status snapshot, and runCheck
\* does not reject because of it.
C9_DeliveryFailureIsLogged ==
    \A c \in 1..Len(cycles) :
        (IsSettled(c) /\ DeliveryFailed(c)) =>
            /\ cycles[c].thrown # "send"
            /\ cycles[c].saveCalls = 1
            /\ cycles[c].statusCalls = 1

\* C10: a failed cooldown save does not keep the cycle from writing the status
\* snapshot, and neither a failed save nor a failed status write rejects
\* runCheck.
C10_PersistenceFailureRecovered ==
    \A c \in 1..Len(cycles) :
        (IsSettled(c) /\ cycles[c].saveCalls = 1) =>
            /\ cycles[c].statusCalls = 1
            /\ cycles[c].thrown \notin {"save", "status"}

MessageKeys(m) == {m.keys[i] : i \in 1..Len(m.keys)}
Delivered(k) == \E i \in 1..Len(telegram) :
                    telegram[i].outcome = "ok" /\ k \in MessageKeys(telegram[i])

\* C2: two delivered alert messages that include the same key are at least
\* the cooldown apart.
C2_CooldownBetweenAlerts ==
    \A i, j \in 1..Len(telegram) :
        ( /\ i < j
          /\ telegram[i].outcome = "ok" /\ telegram[j].outcome = "ok"
          /\ MessageKeys(telegram[i]) \cap MessageKeys(telegram[j]) # {} )
        => \/ telegram[j].at - telegram[i].at >= cooldownMs
           \/ telegram[i].at - telegram[j].at >= cooldownMs

\* what lifts the obligation of C3 in a bounded run: the wallet was read at or
\* above the threshold, a price fetch or a write failed, or the last cycle the
\* model allows has started
C3_Excused(k) ==
    \/ Len(cycles) = MaxCycles
    \/ HasEvaluated /\ \E r \in Readings : r.key = k /\ ~BelowThreshold(r)
    \/ \E c \in 1..Len(cycles) : cycles[c].priceFetch = "failed"
    \/ \E c \in 1..Len(cycles) : cycles[c].thrown \in {"save", "status"}

\* C3: a wallet that is read below the threshold in every cycle is eventually
\* included in a delivered alert; a failed delivery neither suppresses the
\* alert later nor keeps later cycles from running.
C3_EventuallyAlerted == <>(Delivered(SolanaKey) \/ C3_Excused(SolanaKey))

FullySuccessful(c) ==
    /\ IsSettled(c) /\ cycles[c].outcome = "fulfilled"
    /\ cycles[c].priceFetch = "ok" /\ ~cycles[c].overlap
    /\ \A i \in 1..Len(telegram) : telegram[i].cycle = c => telegram[i].outcome = "ok"

\* C4: over consecutive, non-overlapping, fully successful cycles a wallet
\* below the threshold is alerted and its timestamp saved when it has no
\* cooldown entry, is not alerted while `now` is within the cooldown of the
\* last alert, and is alerted and saved again once `now` is past it.
C4_CooldownScenarios ==
    ( /\ HasEvaluated /\ evaluated.cycle = Len(cycles)
      /\ \A c \in 1..Len(cycles) : FullySuccessful(c) )
    => \A r \in Readings :
         BelowThreshold(r) =>
           LET alerted == \E i \in 1..Len(telegram) :
                              /\ telegram[i].cycle = evaluated.cycle
                              /\ r.key \in MessageKeys(telegram[i])
               saved == /\ disk.kind = "json"
                        /\ Entry(disk.lastAlerts, r.key) = <<evaluated.now>>
               known == r.key \in DOMAIN evaluated.loaded
           IN  /\ ~known => (alerted /\ saved)
               /\ (known /\ evaluated.now - evaluated.loaded[r.key] <= cooldownMs)
                     => ~alerted
               /\ (known /\ evaluated.now - evaluated.loaded[r.key] > cooldownMs)
                     => (alerted /\ saved)


\* C11: after any failure inside a cycle, in the start-up run as in a scheduled
\* one, the monitor keeps running: the cron job is installed once the start-up
\* run has ended and the process is not ended by the failure.
C11_MonitorKeepsRunning ==
    /\ IsSettled(1) => scheduled
    /\ ~crashed


\* the entries of a loaded record that are a key-to-timestamp mapping
ValidPart(lastAlerts) ==
    IF DOMAIN lastAlerts = DOMAIN Undefined THEN EmptyMap ELSE lastAlerts

\* C12: whatever state.json holds, loading it does not fail the cycle: the
\* evaluation runs to its end and alerts as it would on the valid entries of
\* the record, a missing or corrupt record counting as the empty map.
C12_LoadNeverFailsCycle ==
    /\ \A c \in 1..Len(cycles) : cycles[c].thrown # "eval"
    /\ HasEvaluated =>
          evaluated.lowBalances =
              EvalLoop(evaluated.results, ValidPart(evaluated.loaded), <<>>,
                       evaluated.now).lowBalances


AllReadings ==
    Readings \cup UNION {{cycles[c].results[i] : i \in 1..Len(cycles[c].results)}
                            : c \in 1..Len(cycles)}

\* C13: in every reading valueUSD is null exactly when balance is null, a
\* non-null valueUSD is balance * price, and an error message is present
\* exactly when balance is null.
C13_ReadingShape ==
    \A r \in AllReadings :
        /\ (r.valueUSD = Null) <=> (r.balance = Null)
        /\ r.balance # Null => r.valueUSD = r.balance * r.price
        /\ r.error <=> (r.balance = Null)

\* a failed reading beside a priced one
C13_Witness ==
    /\ HasEvaluated
    /\ \E r \in Readings : r.balance = Null /\ r.error /\ r.valueUSD = Null
    /\ \E r \in Readings : r.balance = 2 /\ r.price = 1 /\ r.valueUSD = 2

\* C14: every cycle whose price fetch succeeded ends having called the
\* cooldown save once and the status write once, whatever the alert list and
\* the delivery.
C14_SaveAndStatusOnce ==
    \A c \in 1..Len(cycles) :
        (IsSettled(c) /\ cycles[c].priceFetch = "ok") =>
            (cycles[c].saveCalls = 1 /\ cycles[c].statusCalls = 1)

MessagesOf(c) == {i \in 1..Len(telegram) : telegram[i].cycle = c}
Eligible(r) == BelowThreshold(r) /\ CooldownOver(evaluated.loaded, r.key, evaluated.now)
EligibleKeysInOrder ==
    LET picked == SelectSeq(evaluated.results, Eligible)
    IN  [i \in 1..Len(picked) |-> picked[i].key]

\* C15: a cycle sends at most one message: one when its alert list is not
\* empty, naming every alert-eligible reading once in reading order (EVM
\* chains in configuration order, then Solana), and none when it is empty.
C15_OneCompositeMessage ==
    /\ \A c \in 1..Len(cycles) :
          /\ cycles[c].sendCalls <= 1
          /\ Cardinality(MessagesOf(c)) <= cycles[c].sendCalls
    /\ HasEvaluated =>
          LET c == evaluated.cycle IN
          /\ cycles[c].sendCalls = (IF EligibleKeysInOrder = <<>> THEN 0 ELSE 1)
          /\ \A i \in MessagesOf(c) : telegram[i].keys = EligibleKeysInOrder

\* a message for the EVM chain and Solana, in that order
C15_Witness ==
    /\ HasEvaluated
    /\ \E i \in MessagesOf(1) :
          /\ telegram[i].keys = <<ReadingKey(1), SolanaKey>>
          /\ telegram[i].outcome = "ok"


Rank(pc) ==
    CASE pc = "prices" -> 0
      [] pc = "evm" -> 1
      [] pc = "sol" -> 2
      [] pc = "send" -> 3
      [] OTHER -> 4

\* C16: within a cycle the stages come in the order price fetch, balance
\* reads, evaluation, alert delivery (if any), status publication: no balance
\* read starts before the price fetch has succeeded, the cooldown state is
\* loaded and changed only after every balance read of the cycle has
\* completed, and the alert is sent only after every reading was evaluated.
C16_StageOrder ==
    /\ [](\A c \in 1..Len(cycles) :
            /\ (cycles[c].reads > 0 \/ Len(cycles[c].results) > 0) =>
                   cycles[c].priceFetch = "ok"
            /\ cycles[c].pc \in {"prices", "evm", "sol"} =>
                   /\ cycles[c].now = Null
                   /\ cycles[c].loaded = EmptyMap /\ cycles[c].state = EmptyMap
                   /\ cycles[c].sendCalls = 0 /\ cycles[c].saveCalls = 0
                   /\ cycles[c].statusCalls = 0
            /\ (cycles[c].sendCalls > 0 \/ cycles[c].saveCalls > 0
                    \/ cycles[c].statusCalls > 0) =>
                   cycles[c].reads = NumReadings
            /\ cycles[c].statusCalls > 0 => cycles[c].pc = "done")
    /\ [](HasEvaluated =>
            /\ Len(evaluated.results) = NumReadings
            /\ cycles[evaluated.cycle].pc \in {"send", "done"})
    /\ [][\A c \in 1..Len(cycles) :
            /\ Rank(cycles'[c].pc) >= Rank(cycles[c].pc)
            /\ evaluated' # evaluated /\ evaluated'.cycle = c =>
                  /\ cycles[c].pc = "sol"
                  /\ Len(cycles[c].results) = NumReadings - 1
                  /\ Len(evaluated'.results) = NumReadings
            /\ cycles'[c].sendCalls > cycles[c].sendCalls =>
                  evaluated'.cycle = c
            /\ (disk' # disk \/ status' # status) /\ cycles'[c] # cycles[c] =>
                  /\ cycles[c].pc \in {"sol", "send"}
                  /\ evaluated'.cycle = c
                  /\ cycles'[c].pc = "done"
            /\ Len(telegram') > Len(telegram) /\ cycles'[c] # cycles[c] =>
                  cycles[c].pc = "send" /\ evaluated.cycle = c]_vars

\* a cycle that went through every stage, delivery included
C16_Witness ==
    /\ IsSettled(1) /\ cycles[1].thrown = "none"
    /\ cycles[1].reads = NumReadings
    /\ cycles[1].sendCalls = 1 /\ cycles[1].saveCalls = 1 /\ cycles[1].statusCalls = 1
    /\ Len(telegram) = 1 /\ status.kind = "json"

\* C17: every entry key -> t of the cooldown state the monitor has persisted
\* stands for a cycle with now = t whose alert message, naming that key, was
\* delivered to the channel.
C17_PersistedMeansDelivered ==
    disk.kind = "json" =>
      \A k \in DOMAIN disk.lastAlerts :
        \E i \in 1..Len(telegram) :
          /\ telegram[i].outcome = "ok"
          /\ telegram[i].at = disk.lastAlerts[k]
          /\ k \in MessageKeys(telegram[i])

PriceIdOf(i) == IF i <= Len(config_chains) THEN coingecko_id(config_chains[i])
                                           ELSE solana_coingecko_id
Unpriced(i) == evaluated.prices[PriceIdOf(i)] = NoEntry

\* C18: when the price response lacks the identifier of a chain, the chain's
\* reading carries the balance read, price 0, valueUSD 0 and no error, and it
\* is evaluated like any reading worth 0: below the threshold, alerted unless
\* under cooldown.
C18_MissingPriceIsZero ==
    /\ \A p \in PriceResponses, b \in Balances :
          /\ p[solana_coingecko_id] = NoEntry =>
                SolanaReading(b, p) = [key |-> SolanaKey, balance |-> b, price |-> 0,
                                       valueUSD |-> 0, error |-> FALSE]
          /\ \A i \in 1..Len(config_chains) :
                p[coingecko_id(config_chains[i])] = NoEntry =>
                   EvmReading(config_chains[i], b, p) =
                       [key |-> EvmKey(config_chains[i]), balance |-> b, price |-> 0,
                        valueUSD |-> 0, error |-> FALSE]
    /\ HasEvaluated =>
          \A i \in 1..Len(evaluated.results) :
            LET r == evaluated.results[i] IN
            (Unpriced(i) /\ r.balance # Null) =>
               /\ r.price = 0 /\ r.valueUSD = 0 /\ ~r.error
               /\ 0 < threshold_usd /\ BelowThreshold(r)
               /\ r \in AlertList <=>
                     CooldownOver(evaluated.loaded, r.key, evaluated.now)
               /\ r \in AlertList => evaluated.state[r.key] = evaluated.now

\* an unpriced Solana balance alerted, an unpriced EVM balance under cooldown
C18_Witness ==
    /\ HasEvaluated
    /\ Unpriced(1) /\ Unpriced(NumReadings)
    /\ evaluated.results[NumReadings].balance = 2
    /\ evaluated.results[NumReadings] \in AlertList
    /\ evaluated.results[1].balance = 1
    /\ evaluated.results[1] \notin AlertList
    /\ \E i \in 1..Len(telegram) : SolanaKey \in MessageKeys(telegram[i])

StatusWritten == IsSettled(1) /\ cycles[1].statusCalls = 1 /\ status.kind = "json"

\* C19: the status snapshot a cycle writes has one entry per reading of the
\* cycle, failed reads included, in reading order, and the belowThreshold flag
\* of an entry is true exactly when its valueUSD is non-null and below
\* threshold_usd, whether or not the key was alerted.
C19_StatusSnapshot ==
    StatusWritten =>
      /\ Len(status.balances) = NumReadings
      /\ Len(evaluated.results) = NumReadings
      /\ \A i \in 1..NumReadings :
            LET e == status.balances[i]
                r == evaluated.results[i]
            IN  /\ e.chain = ReadingKey(i) /\ e.chain = r.key
                /\ e.balance = r.balance /\ e.valueUSD = r.valueUSD
                /\ e.belowThreshold <=>
                      (e.valueUSD # Null /\ e.valueUSD < threshold_usd)

\* a snapshot with a failed read, and one with a low balance kept quiet by
\* the cooldown
C19_Witness ==
    /\ StatusWritten
    /\ status.balances[1].balance = Null /\ ~status.balances[1].belowThreshold
    /\ status.balances[NumReadings].belowThreshold
    /\ SolanaKey \notin AlertedKeys

InProgress == {c \in 1..Len(cycles) : cycles[c].pc # "done"}

\* C20: at most one cycle is in progress at any time: the scheduler starts no
\* runCheck while an earlier one has not finished.
C20_NoOverlap ==
    /\ Cardinality(InProgress) <= 1
    /\ \A c \in 1..Len(cycles) : ~cycles[c].overlap

====
